---- MODULE Spec2Model ----
(***************************************************************************)
(* Memory Lane: the offline image cache.                                   *)
(*                                                                         *)
(*   src/src/lib/indexed-db.ts            the blob store (openDB,           *)
(*                                        storeImage, getImage)            *)
(*   src/src/components/image-cacher.tsx  the cache synchronizer           *)
(*                                        (ImageCacher / syncCache)        *)
(*   src/src/components/memory-gallery.tsx the resolved-source hook        *)
(*                                        (useOfflineImage) and the        *)
(*                                        slideshow (MemoryGallery)        *)
(*   src/docs/blueprint.md                the service worker (public/sw.js)*)
(*                                                                         *)
(* The runtime is a single-threaded event loop: every action below is one  *)
(* run-to-completion step between two suspension points (an await, an      *)
(* IndexedDB request callback, a React render with its effects).           *)
(***************************************************************************)
EXTENDS Integers, Sequences, FiniteSets, TLC

\* ------------------------------------------------------------------ bounds
\* Image URLs are 1..NumUrls; 0 stands for null (no URL).
NumUrls == 3
\* Blob payloads are 1..NumPayloads; 0 stands for "no entry".
NumPayloads == 2
\* Longest manifest (the images prop of ImageCacher).
MaxManifest == 2
\* ImageCacher effect runs (sync passes) modelled.
NumPasses == 2
\* useOfflineImage instances modelled.
NumHooks == 2
\* Renders of one hook instance that run its effect: the mount and every
\* later change of the imageUrl argument.
MaxRenders == 3
\* Fetch events the service worker handles at the same time.
MaxEvents == 1

Urls == 1 .. NumUrls
Payloads == 1 .. NumPayloads
Passes == 1 .. NumPasses
Hooks == 1 .. NumHooks
\* The instance MemoryGallery keeps for the image on display, and the one for
\* the image it transitions to.
currentImageSource == 1
nextImageSource == 2
NoUrl == 0
NoBlob == 0
\* let db: IDBDatabase before any open succeeded.
NoHandle == 0
\* The connection of the first indexedDB.open request that succeeded, and a
\* connection of any request that succeeded after it.
FirstHandle == 1
LaterHandle == 2

VARIABLES
    db,          \* indexed-db.ts:6    the module-level handle (NoHandle: unset)
    store,       \* the 'images' object store: its entries {url, blob}
    pass,        \* one record per run of the ImageCacher effect (syncCache)
    mounted,     \* hook -> the instance is mounted
    renders,     \* hook -> effect runs so far
    imageUrl,    \* hook -> the argument of the latest render (NoUrl: null)
    source,      \* hook -> the state returned by the hook
    closure,     \* hook -> what the current effect's cleanup closes over
    last,        \* hook -> how the current effect's getImage has settled
    lookups,     \* getImage calls in flight, each with its effect's isMounted
    objectUrls,  \* every URL.createObjectURL result, with its revoke count
    allImages,         \* memory-gallery.tsx:64   the allImages prop
    galleryMode,       \* memory-gallery.tsx:65   'landing' | 'swipe' | 'frozen'
    currentImage,      \* memory-gallery.tsx:67   the image on display (NoUrl: null)
    nextImage,         \* memory-gallery.tsx:69   the image shown next (NoUrl: undefined)
    unseenImageQueue,  \* memory-gallery.tsx:71   the images still to come in this cycle
    isLocked,          \* memory-gallery.tsx:75   the zoomed view is on
    isAnimating,       \* memory-gallery.tsx:90   ref: a transition is running
    transition,        \* the running anime timeline and what its callback closed over
    shown,             \* the images shown since all of them were last shown, and
                       \* whether one was shown again before the others
    cache,       \* sw.js: the entries {url, response} of the cache CACHE_NAME
    fetchEvent   \* sw.js: the fetch events being handled, one record per slot

hookVars == <<mounted, renders, imageUrl, source, closure, last, lookups, objectUrls>>
galleryVars == <<allImages, galleryMode, currentImage, nextImage, unseenImageQueue, isLocked,
                 isAnimating, transition, shown>>
swVars == <<cache, fetchEvent>>
vars == <<db, store, pass, mounted, renders, imageUrl, source, closure, last,
          lookups, objectUrls, allImages, galleryMode, currentImage, nextImage,
          unseenImageQueue, isLocked, isAnimating, transition, shown, cache,
          fetchEvent>>

\* ------------------------------------------------------------ pure helpers
Range(s) == {s[i] : i \in 1 .. Len(s)}

\* The keys of the object store's entries (key path 'url').
Keys(st) == {e.url : e \in st}

Entry(u, b) == [url |-> u, blob |-> b]

\* A store whose entries are keyed by a generated id instead of by 'url': put
\* adds an entry and replaces none (a faulty variant).
PutByGeneratedKey(st, u, b) == st \cup {Entry(u, b)}

\* store.put({url, blob}) on a store with keyPath 'url': the entry with the
\* same url, if any, is replaced.
Put(st, u, b) == {e \in st : e.url # u} \cup {Entry(u, b)}

\* store.get(url) and getImage's request.result ? request.result.blob : null.
Blob(st, u) ==
    IF \E e \in st : e.url = u THEN (CHOOSE e \in st : e.url = u).blob ELSE NoBlob

\* store.delete(url) for every url of a set.
Delete(st, urls) == {e \in st : e.url \notin urls}

RECURSIVE Filter(_, _)
\* images.filter(image => !cachedUrls.has(image.imageUrl)): order and
\* duplicates of the manifest are kept.
Filter(s, drop) ==
    IF s = <<>> THEN <<>>
    ELSE IF Head(s) \in drop THEN Filter(Tail(s), drop)
         ELSE <<Head(s)>> \o Filter(Tail(s), drop)

\* imagesToCache without the filter: every image of the manifest is fetched
\* (a faulty variant).
imagesToCacheUnfiltered(images, cachedUrls) == images

\* imagesToCache with the filter's test inverted (a faulty variant).
imagesToCacheInverted(images, cachedUrls) == Filter(images, Urls \ cachedUrls)

imagesToCache(images, cachedUrls) == Filter(images, cachedUrls)

requiredUrls(images) == Range(images)

\* urlsToRemove with the filter's test inverted (a faulty variant).
urlsToRemoveInverted(images, cachedUrls) == cachedUrls \cap requiredUrls(images)

urlsToRemove(images, cachedUrls) == cachedUrls \ requiredUrls(images)

Manifests == UNION {[1 .. n -> Urls] : n \in 0 .. MaxManifest}

\* --------------------------------------------------------------- blob store
\* openDB(): resolves at once with the handle when db is set, otherwise makes
\* a new indexedDB.open request (there is no pending-open bookkeeping).
openDBStarts(handle) == handle = NoHandle

\* request.onsuccess: db = request.result, whatever db held. Every
\* indexedDB.open request yields a connection of its own.
OpenSuccess(handle) == IF handle = NoHandle THEN FirstHandle ELSE LaterHandle

\* The hook's state: null, a network URL, or a 'blob:' object URL (v is the
\* index of the object URL in objectUrls).
NoSource == [kind |-> "null", v |-> 0]
UrlSource(u) == [kind |-> "url", v |-> u]
BlobSource(id) == [kind |-> "blob", v |-> id]
NoClosure == [hasCleanup |-> FALSE, source |-> NoSource]

IdlePass ==
    [pc |-> "idle", images |-> <<>>, cachedUrls |-> {}, queue |-> <<>>,
     blob |-> NoBlob, fetched |-> <<>>, stored |-> {}, fetchFailed |-> {},
     putFailed |-> {}, deleted |-> {}, evictAborted |-> FALSE,
     overlapped |-> FALSE, openFailed |-> FALSE, puts |-> <<>>,
     deleteFailed |-> {}]

\* The list the page passes as the allImages prop: the images, numbered by
\* their place in it (an image is identified with its URL).
shuffledImages == [i \in 1 .. NumUrls |-> i]

\* No anime timeline of showNextImage is running.
NoTransition == [phase |-> "none", nextImage |-> NoUrl, queue |-> <<>>]

Active(ps) == ps.pc \in {"open", "list", "fetch", "put", "evict"}

\* The store survives reloads: a session starts with any set of keys cached
\* (the payload an earlier session stored for u is PriorBlob(u)).
PriorBlob(u) == ((u - 1) % NumPayloads) + 1

\* ---- sw.js (docs/blueprint.md): requests, responses and the cache
\* The files the install handler adds to the cache (of '/', '/manifest.json'
\* and '/favicon.ico' the home page stands for all three).
urlsToCache == {"/"}

\* The URLs requested: the cached core files, another page or asset of the
\* site, and an asset of a browser extension.
SwUrls == urlsToCache \cup {"/memories", "chrome-extension://ext/a.js"}

\* event.request: its method, mode and url.
Requests == [method : {"GET", "POST"}, mode : {"navigate", "no-cors"}, url : SwUrls]

\* What fetch(event.request) resolves with: status and type of the response
\* (an opaque response has status 0).
Response(status, type) == [status |-> status, type |-> type]
NoResponse == Response(-1, "none")
Responses ==
    {Response(200, "basic"), Response(200, "cors"), Response(404, "basic"),
     Response(0, "opaque")}

\* cache.addAll(urlsToCache) in the install handler has stored a response for
\* each core file.
Installed == {[url |-> u, response |-> Response(200, "basic")] : u \in urlsToCache}

\* event.request.url.startsWith('chrome-extension://')
startsWithChromeExtension(url) == url = "chrome-extension://ext/a.js"

FetchEvents == 1 .. MaxEvents

\* A slot in which no fetch event is being handled.
NoEvent ==
    [pc |-> "idle", request |-> [method |-> "GET", mode |-> "no-cors", url |-> "/"],
     response |-> NoResponse, intercepted |-> FALSE, fetchFailed |-> FALSE,
     served |-> "nothing"]

\* The state of a page that has just mounted its gallery with the list
\* images as the allImages prop.
InitOf(images) ==
    /\ db = NoHandle
    /\ \E cached \in SUBSET Urls :
          store = {Entry(u, PriorBlob(u)) : u \in cached}
    /\ pass = [p \in Passes |-> IdlePass]
    /\ mounted = [h \in Hooks |-> FALSE]
    /\ renders = [h \in Hooks |-> 0]
    /\ imageUrl = [h \in Hooks |-> NoUrl]
    /\ source = [h \in Hooks |-> NoSource]
    /\ closure = [h \in Hooks |-> NoClosure]
    /\ last = [h \in Hooks |-> "idle"]
    /\ lookups = {}
    /\ objectUrls = <<>>
    /\ allImages = images
    /\ galleryMode = "landing"
    /\ currentImage = NoUrl
    /\ nextImage = images[1]
    /\ unseenImageQueue = Tail(images)
    /\ isLocked = FALSE
    /\ isAnimating = FALSE
    /\ transition = NoTransition
    /\ shown = [seen |-> {}, repeated |-> FALSE]
    /\ cache = Installed
    /\ fetchEvent = [i \in FetchEvents |-> NoEvent]

Init == InitOf(shuffledImages)

\* ------------------------------------------------------------- synchronizer
\* After the fetch loop (or when nothing is to be cached): part 2 of the
\* onsuccess handler, which issues every delete in one readwrite transaction.
EvictOrDone(ps) ==
    IF urlsToRemove(ps.images, ps.cachedUrls) # {}
    THEN [ps EXCEPT !.pc = "evict", !.queue = <<>>, !.blob = NoBlob]
    ELSE [ps EXCEPT !.pc = "done", !.queue = <<>>, !.blob = NoBlob]

\* The loop body started without awaiting, so that the handler reaches the
\* deletes while images are still to be fetched (a faulty variant).
NextImageNotAwaited(ps) ==
    IF Len(ps.queue) > 1 /\ urlsToRemove(ps.images, ps.cachedUrls) = {}
    THEN [ps EXCEPT !.pc = "fetch", !.queue = Tail(ps.queue), !.blob = NoBlob]
    ELSE EvictOrDone(ps)

\* The for-loop moves on to the next image of imagesToCache.
NextImage(ps) ==
    IF Len(ps.queue) > 1
    THEN [ps EXCEPT !.pc = "fetch", !.queue = Tail(ps.queue), !.blob = NoBlob]
    ELSE EvictOrDone(ps)

\* FetchCatch with the try/catch around the whole loop, so that the first
\* failed fetch ends the handler (a faulty variant).
FetchCatchEndsLoop(ps) ==
    [ps EXCEPT !.pc = "done", !.queue = <<>>, !.blob = NoBlob,
               !.fetchFailed = @ \cup {Head(ps.queue)}]

\* FetchCatch without the try/catch: the rejection leaves the async handler,
\* which never reaches the rest of the loop or the deletes (a faulty variant).
FetchCatchMissing(ps) ==
    [ps EXCEPT !.pc = "crashed", !.fetchFailed = @ \cup {Head(ps.queue)}]

\* catch (error) { console.error(...) } inside the loop: the image is skipped.
FetchCatch(ps) ==
    NextImage([ps EXCEPT !.fetchFailed = @ \cup {Head(ps.queue)}])

PutCatch(ps) ==
    NextImage([ps EXCEPT !.putFailed = @ \cup {Head(ps.queue)}])

\* useEffect(() => { syncCache() }, [images]): the effect runs for a new
\* images prop; syncCache calls openDB() at once.
StartPass(p, m) ==
    /\ pass[p].pc = "idle"
    /\ \A q \in Passes : q < p => pass[q].pc # "idle"
    /\ LET others == \E q \in Passes : q # p /\ Active(pass[q])
           opening == openDBStarts(db)
       IN /\ pass' = [q \in Passes |->
                IF q = p
                THEN [IdlePass EXCEPT !.pc = IF opening THEN "open" ELSE "list",
                                      !.images = m, !.overlapped = others]
                ELSE IF Active(pass[q])
                     THEN [pass[q] EXCEPT !.overlapped = TRUE]
                     ELSE pass[q]]
    /\ UNCHANGED <<db, store, hookVars, galleryVars, swVars>>

\* request.onsuccess of indexedDB.open: db is set, the promise resolves, and
\* syncCache issues store.getAll().
PassOpenOk(p) ==
    /\ pass[p].pc = "open"
    /\ db' = OpenSuccess(db)
    /\ pass' = [pass EXCEPT ![p].pc = "list"]
    /\ UNCHANGED <<store, hookVars, galleryVars, swVars>>

\* syncCache's catch with the rejection swallowed before db.transaction, so
\* that the pass goes on to list the store (a faulty variant).
OpenCatchGoesOn(ps) == [ps EXCEPT !.pc = "list"]

\* catch (error) { console.error(...) } around the body of syncCache: nothing
\* after the await runs.
OpenCatch(ps) == [ps EXCEPT !.pc = "aborted"]

\* request.onerror: the promise rejects, syncCache's catch logs it.
PassOpenFail(p) ==
    /\ pass[p].pc = "open"
    /\ pass' = [pass EXCEPT ![p] = OpenCatch([pass[p] EXCEPT !.openFailed = TRUE])]
    /\ UNCHANGED <<db, store, hookVars, galleryVars, swVars>>

\* getAllRequest.onsuccess up to the first await.
PassListOk(p) ==
    /\ pass[p].pc = "list"
    /\ LET cached == Keys(store)
           todo == imagesToCache(pass[p].images, cached)
           ps == [pass[p] EXCEPT !.cachedUrls = cached, !.queue = todo]
       IN pass' = [pass EXCEPT ![p] =
                IF todo # <<>> THEN [ps EXCEPT !.pc = "fetch"] ELSE EvictOrDone(ps)]
    /\ UNCHANGED <<db, store, hookVars, galleryVars, swVars>>

\* getAllRequest.onerror: logged, nothing else happens.
PassListFail(p) ==
    /\ pass[p].pc = "list"
    /\ pass' = [pass EXCEPT ![p].pc = "aborted"]
    /\ UNCHANGED <<db, store, hookVars, galleryVars, swVars>>

\* PassFetchOk with storeImage writing the entry in two requests, the key
\* first and the payload when the put settles (a faulty variant).
PassFetchOkKeyFirst(p, b) ==
    /\ pass[p].pc = "fetch"
    /\ store' = Put(store, Head(pass[p].queue), NoBlob)
    /\ pass' = [pass EXCEPT ![p].pc = "put", ![p].blob = b,
                            ![p].fetched = Append(@, Head(pass[p].queue))]
    /\ UNCHANGED <<db, hookVars, galleryVars, swVars>>

\* fetch resolves with response.ok and response.blob() yields the payload;
\* storeImage is called (openDB resolves at once: db is set) and issues put.
PassFetchOk(p, b) ==
    /\ pass[p].pc = "fetch"
    /\ pass' = [pass EXCEPT ![p].pc = "put", ![p].blob = b,
                            ![p].fetched = Append(@, Head(pass[p].queue))]
    /\ UNCHANGED <<db, store, hookVars, galleryVars, swVars>>

\* fetch rejects, or !response.ok throws.
PassFetchFail(p) ==
    /\ pass[p].pc = "fetch"
    /\ pass' = [pass EXCEPT ![p] =
            FetchCatch([pass[p] EXCEPT !.fetched = Append(@, Head(pass[p].queue))])]
    /\ UNCHANGED <<db, store, hookVars, galleryVars, swVars>>

\* store.put({url, blob}) succeeds: insert or overwrite by key path 'url'.
PassPutOk(p) ==
    /\ pass[p].pc = "put"
    /\ LET u == Head(pass[p].queue)
       IN /\ store' = Put(store, u, pass[p].blob)
          /\ pass' = [pass EXCEPT ![p] =
                NextImage([pass[p] EXCEPT !.stored = @ \cup {u},
                                          !.puts = Append(@, Entry(u, pass[p].blob))])]
    /\ UNCHANGED <<db, hookVars, galleryVars, swVars>>

\* put request.onerror: storeImage rejects, the loop's catch logs it.
PassPutFail(p) ==
    /\ pass[p].pc = "put"
    /\ pass' = [pass EXCEPT ![p] = PutCatch(pass[p])]
    /\ UNCHANGED <<db, store, hookVars, galleryVars, swVars>>

\* The delete transaction commits: every urlsToRemove key is gone.
PassEvictCommit(p) ==
    /\ pass[p].pc = "evict"
    /\ LET gone == urlsToRemove(pass[p].images, pass[p].cachedUrls)
       IN /\ store' = Delete(store, gone)
          /\ pass' = [pass EXCEPT ![p].pc = "done", ![p].deleted = gone]
    /\ UNCHANGED <<db, hookVars, galleryVars, swVars>>

\* The delete request for k fails. No request and no transaction of the
\* handler has an error handler, so the error is not cancelled: the
\* transaction aborts and none of its deletes takes effect. Nothing is logged.
PassEvictAbort(p, k) ==
    /\ pass[p].pc = "evict"
    /\ k \in urlsToRemove(pass[p].images, pass[p].cachedUrls)
    /\ pass' = [pass EXCEPT ![p].pc = "done", ![p].evictAborted = TRUE,
                            ![p].deleteFailed = {k}]
    /\ UNCHANGED <<db, store, hookVars, galleryVars, swVars>>

SyncNext ==
    \/ \E p \in Passes, m \in Manifests : StartPass(p, m)
    \/ \E p \in Passes : PassOpenOk(p)
    \/ \E p \in Passes : PassOpenFail(p)
    \/ \E p \in Passes : PassListOk(p)
    \/ \E p \in Passes : PassListFail(p)
    \/ \E p \in Passes, b \in Payloads : PassFetchOk(p, b)
    \/ \E p \in Passes : PassFetchFail(p)
    \/ \E p \in Passes : PassPutOk(p)
    \/ \E p \in Passes : PassPutFail(p)
    \/ \E p \in Passes : PassEvictCommit(p)
    \/ \E p \in Passes, k \in Urls : PassEvictAbort(p, k)

\* ------------------------------------------------------- resolved-source hook
\* A render that changes imageUrl, its cleanup and its effect are one step:
\* React flushes a render's effects before it handles the next event.

\* Commits without the isMounted guard (a faulty variant).
CommitsAlways(isMounted) == TRUE

\* if (isMounted) { ... }: whether a settled getImage commits its result.
Commits(isMounted) == isMounted

\* Resolved with a miss clearing the source instead of falling back (a
\* faulty variant).
ResolvedNoFallback(url, cachedBlob, id) ==
    IF cachedBlob # NoBlob THEN BlobSource(id) ELSE NoSource

\* Resolved with the cached blob ignored (a faulty variant).
ResolvedNetworkOnly(url, cachedBlob, id) == UrlSource(url)

\* The value handed to setSource: URL.createObjectURL(cachedBlob) when the
\* store had an entry, the network URL otherwise.
Resolved(url, cachedBlob, id) ==
    IF cachedBlob # NoBlob THEN BlobSource(id) ELSE UrlSource(url)

\* if (source && source.startsWith('blob:')), on the source the effect's
\* closure captured at its render.
Revokes(captured) == captured.kind = "blob"

\* Revoke with object URLs shared per image URL, so that the cleanup releases
\* every object URL made for the same key (a faulty variant).
RevokeByKey(h, urls) ==
    IF closure[h].hasCleanup /\ Revokes(closure[h].source)
    THEN [i \in DOMAIN urls |->
            IF urls[i].key = urls[closure[h].source.v].key
            THEN [urls[i] EXCEPT !.revoked = @ + 1]
            ELSE urls[i]]
    ELSE urls

\* URL.revokeObjectURL(source) in the cleanup of hook h's current effect.
Revoke(h, urls) ==
    IF closure[h].hasCleanup /\ Revokes(closure[h].source)
    THEN [urls EXCEPT ![closure[h].source.v].revoked = @ + 1]
    ELSE urls

\* isMounted = false in the cleanup of hook h's current effect.
Unmounted(h, ls) ==
    IF closure[h].hasCleanup
    THEN {IF l.hook = h THEN [l EXCEPT !.isMounted = FALSE] ELSE l : l \in ls}
    ELSE ls

\* The effect body for argument u, rendered with state s.
RunEffect(h, u, s, ls) ==
    /\ imageUrl' = [imageUrl EXCEPT ![h] = u]
    /\ renders' = [renders EXCEPT ![h] = @ + 1]
    /\ IF u = NoUrl
       THEN /\ closure' = [closure EXCEPT ![h] = [hasCleanup |-> FALSE, source |-> s]]
            /\ last' = [last EXCEPT ![h] = "idle"]
            /\ lookups' = ls
       ELSE /\ closure' = [closure EXCEPT ![h] = [hasCleanup |-> TRUE, source |-> s]]
            /\ last' = [last EXCEPT ![h] = "pending"]
            /\ lookups' = ls \cup
                 {[hook |-> h, url |-> u, isMounted |-> TRUE,
                   phase |-> IF openDBStarts(db) THEN "open" ELSE "read"]}

\* First render: useState(imageUrl), then the effect.
Mount(h, u) ==
    /\ ~mounted[h] /\ renders[h] = 0
    /\ mounted' = [mounted EXCEPT ![h] = TRUE]
    /\ source' = [source EXCEPT ![h] = IF u = NoUrl THEN NoSource ELSE UrlSource(u)]
    /\ RunEffect(h, u, source'[h], lookups)
    /\ UNCHANGED <<db, store, pass, galleryVars, swVars, objectUrls>>

\* A render with a new argument: the previous effect's cleanup runs, then the
\* effect runs again; source keeps its value.
ChangeInput(h, u) ==
    /\ mounted[h] /\ u # imageUrl[h] /\ renders[h] < MaxRenders
    /\ objectUrls' = Revoke(h, objectUrls)
    /\ RunEffect(h, u, source[h], Unmounted(h, lookups))
    /\ UNCHANGED <<db, store, pass, galleryVars, swVars, mounted, source>>

\* The component unmounts: the current effect's cleanup runs.
Unmount(h) ==
    /\ mounted[h]
    /\ mounted' = [mounted EXCEPT ![h] = FALSE]
    /\ objectUrls' = Revoke(h, objectUrls)
    /\ lookups' = Unmounted(h, lookups)
    /\ closure' = [closure EXCEPT ![h] = NoClosure]
    /\ UNCHANGED <<db, store, pass, galleryVars, swVars, renders, imageUrl, source, last>>

\* getImage's openDB: indexedDB.open succeeds, get(url) is issued.
LookupOpenOk(l) ==
    /\ l.phase = "open"
    /\ db' = OpenSuccess(db)
    /\ lookups' = (lookups \ {l}) \cup {[l EXCEPT !.phase = "read"]}
    /\ UNCHANGED <<store, pass, galleryVars, swVars, mounted, renders, imageUrl, source, closure,
                   last, objectUrls>>

\* getImage rejects (open or get failed); fetchImage has no catch, so the
\* rejection goes unhandled and setSource is never called.
Rejected(l) ==
    /\ lookups' = lookups \ {l}
    /\ last' = IF l.isMounted THEN [last EXCEPT ![l.hook] = "failed"] ELSE last
    /\ UNCHANGED <<db, store, pass, galleryVars, swVars, mounted, renders, imageUrl, source, closure,
                   objectUrls>>

LookupOpenFail(l) ==
    /\ l.phase = "open"
    /\ Rejected(l)

LookupReadFail(l) ==
    /\ l.phase = "read"
    /\ Rejected(l)

\* get(url) succeeds: getImage resolves with the entry's blob or null, and
\* fetchImage continues after its await.
LookupReadOk(l) ==
    /\ l.phase = "read"
    /\ lookups' = lookups \ {l}
    /\ LET cachedBlob == Blob(store, l.url)
           id == Len(objectUrls) + 1
       IN IF Commits(l.isMounted)
          THEN /\ source' = [source EXCEPT ![l.hook] = Resolved(l.url, cachedBlob, id)]
               /\ objectUrls' =
                    IF source'[l.hook].kind = "blob"
                    THEN Append(objectUrls, [blob |-> cachedBlob, key |-> l.url,
                                             hook |-> l.hook, revoked |-> 0])
                    ELSE objectUrls
               /\ last' = IF l.isMounted
                          THEN [last EXCEPT ![l.hook] =
                                    IF cachedBlob # NoBlob THEN "hit" ELSE "miss"]
                          ELSE last
          ELSE UNCHANGED <<source, objectUrls, last>>
    /\ UNCHANGED <<db, store, pass, galleryVars, swVars, mounted, renders, imageUrl, closure>>

\* One hook instance: MemoryGallery's currentImageSource, whose argument is
\* null at first and changes with every transition. No sync pass runs here:
\* the store keeps the keys the session started with.
HookNext ==
    \/ \E u \in Urls \cup {NoUrl} : Mount(currentImageSource, u)
    \/ \E h \in Hooks, u \in Urls \cup {NoUrl} : ChangeInput(h, u)
    \/ \E h \in Hooks : Unmount(h)
    \/ \E l \in lookups : LookupOpenOk(l)
    \/ \E l \in lookups : LookupOpenFail(l)
    \/ \E l \in lookups : LookupReadOk(l)
    \/ \E l \in lookups : LookupReadFail(l)

HookSpec == Init /\ [][HookNext]_vars

\* One ImageCacher effect run per session: the manifest is static per load.
SoloNext ==
    \/ \E m \in Manifests : StartPass(1, m)
    \/ \E p \in Passes : PassOpenOk(p)
    \/ \E p \in Passes : PassOpenFail(p)
    \/ \E p \in Passes : PassListOk(p)
    \/ \E p \in Passes : PassListFail(p)
    \/ \E p \in Passes, b \in Payloads : PassFetchOk(p, b)
    \/ \E p \in Passes : PassFetchFail(p)
    \/ \E p \in Passes : PassPutOk(p)
    \/ \E p \in Passes : PassPutFail(p)
    \/ \E p \in Passes : PassEvictCommit(p)
    \/ \E p \in Passes, k \in Urls : PassEvictAbort(p, k)

SoloSpec == Init /\ [][SoloNext]_vars

\* Every request of a pass (the open, the listing, a fetch, a put, the delete
\* transaction) eventually settles, with success or with an error.
PassSettles(p) ==
    \/ PassOpenOk(p) \/ PassOpenFail(p)
    \/ PassListOk(p) \/ PassListFail(p)
    \/ \E b \in Payloads : PassFetchOk(p, b)
    \/ PassFetchFail(p)
    \/ PassPutOk(p) \/ PassPutFail(p)
    \/ PassEvictCommit(p)
    \/ \E k \in Urls : PassEvictAbort(p, k)

FairSoloSpec == SoloSpec /\ \A p \in Passes : WF_vars(PassSettles(p))

\* Every live getImage of a mounted hook eventually settles: IndexedDB
\* answers each request with a success or an error event.
SettleLive(h) ==
    \E l \in lookups :
        /\ l.hook = h /\ l.isMounted
        /\ LookupOpenOk(l) \/ LookupOpenFail(l) \/ LookupReadOk(l) \/ LookupReadFail(l)

FairHookSpec == HookSpec /\ WF_vars(SettleLive(currentImageSource))

\* A session that starts with an empty store. ImageCacher first gets a
\* manifest of three images; once that pass has ended the images prop changes
\* to the first and the third of them; once the second pass has ended
\* currentImageSource mounts with the second URL and nextImageSource with the
\* first.
ManifestABC == <<1, 2, 3>>
ManifestAC == <<1, 3>>

Ended(ps) == ps.pc \in {"done", "aborted"}

ScenarioInit == Init /\ store = {}

ScenarioNext ==
    \/ StartPass(1, ManifestABC)
    \/ Ended(pass[1]) /\ StartPass(2, ManifestAC)
    \/ \E p \in Passes : PassOpenOk(p)
    \/ \E p \in Passes : PassOpenFail(p)
    \/ \E p \in Passes : PassListOk(p)
    \/ \E p \in Passes : PassListFail(p)
    \/ \E p \in Passes, b \in Payloads : PassFetchOk(p, b)
    \/ \E p \in Passes : PassFetchFail(p)
    \/ \E p \in Passes : PassPutOk(p)
    \/ \E p \in Passes : PassPutFail(p)
    \/ \E p \in Passes : PassEvictCommit(p)
    \/ \E p \in Passes, k \in Urls : PassEvictAbort(p, k)
    \/ Ended(pass[2]) /\ Mount(currentImageSource, ManifestABC[2])
    \/ Ended(pass[2]) /\ Mount(nextImageSource, ManifestABC[1])
    \/ \E l \in lookups : LookupOpenOk(l)
    \/ \E l \in lookups : LookupOpenFail(l)
    \/ \E l \in lookups : LookupReadOk(l)
    \/ \E l \in lookups : LookupReadFail(l)

ScenarioSpec == ScenarioInit /\ [][ScenarioNext]_vars

\* The images prop changes once while the page is open, so the ImageCacher
\* effect runs twice; nothing in the component keeps the second run from
\* starting while the first is still at work. The manifests are short, and one
\* of them names a URL twice.
RerunManifests == {<<1>>, <<1, 1>>, <<2>>}

RerunNext ==
    \/ \E m \in RerunManifests : StartPass(1, m)
    \/ \E m \in RerunManifests : StartPass(2, m)
    \/ \E p \in Passes : PassOpenOk(p)
    \/ \E p \in Passes : PassOpenFail(p)
    \/ \E p \in Passes : PassListOk(p)
    \/ \E p \in Passes : PassListFail(p)
    \/ \E p \in Passes, b \in Payloads : PassFetchOk(p, b)
    \/ \E p \in Passes : PassFetchFail(p)
    \/ \E p \in Passes : PassPutOk(p)
    \/ \E p \in Passes : PassPutFail(p)
    \/ \E p \in Passes : PassEvictCommit(p)
    \/ \E p \in Passes, k \in Urls : PassEvictAbort(p, k)

RerunSpec == Init /\ [][RerunNext]_vars

\* One sync pass and MemoryGallery's currentImageSource on the same page: the
\* hook mounts with some URL at any moment of the pass, so its getImage may
\* run before, while or after the pass fetches and puts that URL.
RaceNext ==
    \/ \E m \in RerunManifests : StartPass(1, m)
    \/ \E p \in Passes : PassOpenOk(p)
    \/ \E p \in Passes : PassOpenFail(p)
    \/ \E p \in Passes : PassListOk(p)
    \/ \E p \in Passes : PassListFail(p)
    \/ \E p \in Passes, b \in Payloads : PassFetchOk(p, b)
    \/ \E p \in Passes : PassFetchFail(p)
    \/ \E p \in Passes : PassPutOk(p)
    \/ \E p \in Passes : PassPutFail(p)
    \/ \E p \in Passes : PassEvictCommit(p)
    \/ \E p \in Passes, k \in Urls : PassEvictAbort(p, k)
    \/ \E u \in Urls : Mount(currentImageSource, u)
    \/ \E l \in lookups : LookupOpenOk(l)
    \/ \E l \in lookups : LookupOpenFail(l)
    \/ \E l \in lookups : LookupReadOk(l)
    \/ \E l \in lookups : LookupReadFail(l)

RaceSpec == Init /\ [][RaceNext]_vars

\* Two instances at once: MemoryGallery's currentImageSource, whose argument
\* changes, and one FrozenImageTile, whose image prop is fixed while it is
\* mounted. Both are given URLs of the same two images, of which the store
\* holds the first.
FrozenImageTile == 2
TileUrls == {1, 2}

TilesInit == Init /\ store = {Entry(1, PriorBlob(1))}

TilesNext ==
    \/ \E u \in TileUrls : Mount(currentImageSource, u)
    \/ \E u \in TileUrls : Mount(FrozenImageTile, u)
    \/ \E u \in TileUrls : ChangeInput(currentImageSource, u)
    \/ \E h \in Hooks : Unmount(h)
    \/ \E l \in lookups : LookupOpenOk(l)
    \/ \E l \in lookups : LookupOpenFail(l)
    \/ \E l \in lookups : LookupReadOk(l)
    \/ \E l \in lookups : LookupReadFail(l)

TilesSpec == TilesInit /\ [][TilesNext]_vars

\* ------------------------------------------------------------------ gallery
\* The orders .sort(() => Math.random() - 0.5) can leave a list in.
Shuffles(S) ==
    {q \in [1 .. Cardinality(S) -> S] : \A i, j \in DOMAIN q : i # j => q[i] # q[j]}

\* Dropped without the isAnimating test (a faulty variant).
DroppedUnlessAnimating(animating, next, locked) == next = NoUrl \/ locked

\* if (isAnimating.current || !nextImage || isLocked) return;
Dropped(animating, next, locked) == animating \/ next = NoUrl \/ locked

\* The history of the slideshow when image x becomes the current image.
Show(x) ==
    IF x = NoUrl \/ x = currentImage THEN shown
    ELSE IF shown.seen = Range(allImages) THEN [shown EXCEPT !.seen = {x}]
    ELSE IF x \in shown.seen THEN [shown EXCEPT !.repeated = TRUE]
    ELSE [shown EXCEPT !.seen = @ \cup {x}]

\* showNextImage(), called in a render whose state is (next, queue, locked):
\* unless the call is dropped the fade-out starts, and its complete callback
\* closes over that render's nextImage and unseenImageQueue.
showNextImage(next, queue, locked) ==
    IF Dropped(isAnimating, next, locked)
    THEN UNCHANGED <<isAnimating, transition>>
    ELSE /\ isAnimating' = TRUE
         /\ transition' = [phase |-> "fadeOut", nextImage |-> next, queue |-> queue]

\* A render after galleryMode, currentImage or isLocked changed, with the
\* effect on [galleryMode, showNextImage, currentImage]: in 'swipe' mode with
\* no current image it calls showNextImage().
Render(mode, current, locked) ==
    /\ galleryMode' = mode
    /\ currentImage' = current
    /\ isLocked' = locked
    /\ shown' = Show(current)
    /\ IF mode = "swipe" /\ current = NoUrl
       THEN showNextImage(nextImage, unseenImageQueue, locked)
       ELSE UNCHANGED <<isAnimating, transition>>
    /\ UNCHANGED <<db, store, pass, hookVars, swVars, allImages, nextImage, unseenImageQueue>>

\* 'View Memories' on the landing page.
startGallery ==
    /\ galleryMode = "landing"
    /\ Render("swipe", currentImage, isLocked)

\* The grid button rendered in the locked view too (a faulty variant).
showFrozenGalleryLocked ==
    /\ galleryMode \in {"landing", "swipe"}
    /\ Render("frozen", currentImage, isLocked)

\* 'Frozen' on the landing page, and the grid button of the swipe view
\* (rendered while the view is not locked).
showFrozenGallery ==
    /\ galleryMode = "landing" \/ (galleryMode = "swipe" /\ ~isLocked)
    /\ Render("frozen", currentImage, isLocked)

\* 'Back to swipe view' in the grid.
backToSwipe ==
    /\ galleryMode = "frozen"
    /\ Render("swipe", currentImage, isLocked)

\* A tile of the grid is clicked.
handleFrozenImageClick(image) ==
    /\ galleryMode = "frozen"
    /\ Render("swipe", image, isLocked)

\* 'Return to landing' in the grid.
returnToLanding ==
    /\ galleryMode = "frozen"
    /\ Render("landing", NoUrl, isLocked)

\* A click on the image, the close button of the zoomed view, or Escape.
toggleLock ==
    /\ galleryMode = "swipe" /\ currentImage # NoUrl
    /\ Render(galleryMode, currentImage, ~isLocked)

\* An arrow button, a key or a touch swipe in the swipe view.
handleSwipe ==
    /\ galleryMode = "swipe" /\ ~isLocked
    /\ showNextImage(nextImage, unseenImageQueue, isLocked)
    /\ UNCHANGED <<db, store, pass, hookVars, swVars, allImages, galleryMode, currentImage, nextImage,
                   unseenImageQueue, isLocked, shown>>

\* complete of the fade-out: the captured nextImage becomes the current one,
\* the head of the captured queue (refilled with the other images in a
\* random order when it is empty) the next one; the fade-in starts.
FadeOutComplete ==
    /\ transition.phase = "fadeOut"
    /\ \E queue \in (IF transition.queue # <<>> THEN {transition.queue}
                      ELSE Shuffles(Range(allImages) \ {transition.nextImage})) :
          /\ nextImage' = IF queue = <<>> THEN NoUrl ELSE Head(queue)
          /\ unseenImageQueue' = IF queue = <<>> THEN <<>> ELSE Tail(queue)
    /\ currentImage' = transition.nextImage
    /\ shown' = Show(transition.nextImage)
    /\ transition' = [NoTransition EXCEPT !.phase = "fadeIn"]
    /\ UNCHANGED <<db, store, pass, hookVars, swVars, allImages, galleryMode, isLocked, isAnimating>>

\* complete of the fade-in.
FadeInComplete ==
    /\ transition.phase = "fadeIn"
    /\ isAnimating' = FALSE
    /\ transition' = NoTransition
    /\ UNCHANGED <<db, store, pass, hookVars, swVars, allImages, galleryMode, currentImage, nextImage,
                   unseenImageQueue, isLocked, shown>>

GalleryNext ==
    \/ startGallery
    \/ showFrozenGallery
    \/ backToSwipe
    \/ \E image \in Range(allImages) : handleFrozenImageClick(image)
    \/ returnToLanding
    \/ toggleLock
    \/ handleSwipe
    \/ FadeOutComplete
    \/ FadeInComplete

\* The gallery alone, from a session with an empty store.
GalleryInit == Init /\ store = {}

GallerySpec == GalleryInit /\ [][GalleryNext]_vars

\* The lists a page may pass as allImages: one image, two, ... NumUrls images.
GalleryManifests == {SubSeq(shuffledImages, 1, n) : n \in 1 .. NumUrls}

AnyGalleryInit == \E images \in GalleryManifests : InitOf(images) /\ store = {}

\* The gallery alone, given any non-empty list of images.
AnyGallerySpec == AnyGalleryInit /\ [][GalleryNext]_vars

\* ----------------------------------------------------------- service worker
\* caches.match(request): the cached response for the request's URL, or
\* NoResponse (undefined).
match(c, url) ==
    IF \E e \in c : e.url = url THEN (CHOOSE e \in c : e.url = url).response
    ELSE NoResponse

\* cache.put(request, response): the entry of the request's URL is replaced.
put(c, url, response) ==
    {e \in c : e.url # url} \cup {[url |-> url, response |-> response]}

\* The navigation branch caching whatever the network answered (a faulty
\* variant).
NavigateCacheableAnyStatus(response) == response.type = "basic"

\* Navigation branch: !(!response || response.status !== 200 ||
\* response.type !== 'basic').
NavigateCacheable(response) == response.status = 200 /\ response.type = "basic"

\* Cache-first branch: !(!response || response.status !== 200) and the URL
\* is not one of a browser extension.
AssetCacheable(request, response) ==
    response.status = 200 /\ ~startsWithChromeExtension(request.url)

\* Slot i's event goes on as ev; nothing else changes.
Handle(i, ev) ==
    /\ fetchEvent' = [fetchEvent EXCEPT ![i] = ev]
    /\ UNCHANGED <<db, store, pass, hookVars, galleryVars>>

\* The 'fetch' listener is called with a request: a non-GET request returns
\* before respondWith (the browser handles it); a navigation is answered
\* with fetch(event.request), any other GET with caches.match(event.request).
FetchListener(i, request) ==
    /\ fetchEvent[i].pc \in {"idle", "done"}
    /\ Handle(i, [NoEvent EXCEPT
            !.request = request,
            !.intercepted = request.method = "GET",
            !.served = IF request.method = "GET" THEN "nothing" ELSE "default",
            !.pc = IF request.method # "GET" THEN "done"
                   ELSE IF request.mode = "navigate" THEN "navigateFetch"
                   ELSE "match"])
    /\ UNCHANGED cache

\* Navigation: fetch resolves; the response is returned, and a valid one is
\* cloned for caches.open(CACHE_NAME).then(cache => cache.put(...)).
NavigateFetchOk(i, response) ==
    /\ fetchEvent[i].pc = "navigateFetch"
    /\ Handle(i, [fetchEvent[i] EXCEPT
            !.response = response, !.served = "network",
            !.pc = IF NavigateCacheable(response) THEN "put" ELSE "done"])
    /\ UNCHANGED cache

\* Navigation: fetch rejects; the catch asks the cache for the request.
NavigateFetchFail(i) ==
    /\ fetchEvent[i].pc = "navigateFetch"
    /\ Handle(i, [fetchEvent[i] EXCEPT !.fetchFailed = TRUE, !.pc = "navigateMatch"])
    /\ UNCHANGED cache

\* caches.match(event.request) in the catch resolves: a hit is served,
\* otherwise caches.match('/') is asked.
NavigateMatch(i) ==
    /\ fetchEvent[i].pc = "navigateMatch"
    /\ LET hit == match(cache, fetchEvent[i].request.url) IN
       Handle(i, IF hit # NoResponse
                 THEN [fetchEvent[i] EXCEPT !.response = hit, !.served = "cache",
                                            !.pc = "done"]
                 ELSE [fetchEvent[i] EXCEPT !.pc = "homeMatch"])
    /\ UNCHANGED cache

\* caches.match('/') resolves: the home page if it is cached, else undefined
\* (the navigation fails).
HomeMatch(i) ==
    /\ fetchEvent[i].pc = "homeMatch"
    /\ LET hit == match(cache, "/") IN
       Handle(i, [fetchEvent[i] EXCEPT
            !.response = hit,
            !.served = IF hit # NoResponse THEN "cache" ELSE "error",
            !.pc = "done"])
    /\ UNCHANGED cache

\* Other GET requests: caches.match resolves; a hit is returned, a miss goes
\* to the network.
Match(i) ==
    /\ fetchEvent[i].pc = "match"
    /\ LET hit == match(cache, fetchEvent[i].request.url) IN
       Handle(i, IF hit # NoResponse
                 THEN [fetchEvent[i] EXCEPT !.response = hit, !.served = "cache",
                                            !.pc = "done"]
                 ELSE [fetchEvent[i] EXCEPT !.pc = "fetch"])
    /\ UNCHANGED cache

\* Other GET requests: fetch resolves; the response is returned, and a
\* cacheable one is cloned for the cache.
FetchOk(i, response) ==
    /\ fetchEvent[i].pc = "fetch"
    /\ Handle(i, [fetchEvent[i] EXCEPT
            !.response = response, !.served = "network",
            !.pc = IF AssetCacheable(fetchEvent[i].request, response) THEN "put"
                   ELSE "done"])
    /\ UNCHANGED cache

\* Other GET requests: fetch rejects, and so does the promise given to
\* respondWith.
FetchFail(i) ==
    /\ fetchEvent[i].pc = "fetch"
    /\ Handle(i, [fetchEvent[i] EXCEPT !.fetchFailed = TRUE, !.served = "error",
                                       !.pc = "done"])
    /\ UNCHANGED cache

\* caches.open(CACHE_NAME).then(cache => cache.put(event.request, clone)).
CachePut(i) ==
    /\ fetchEvent[i].pc = "put"
    /\ cache' = put(cache, fetchEvent[i].request.url, fetchEvent[i].response)
    /\ Handle(i, [fetchEvent[i] EXCEPT !.pc = "done"])

\* caches.open or cache.put rejects; nothing handles the rejection.
CachePutFail(i) ==
    /\ fetchEvent[i].pc = "put"
    /\ Handle(i, [fetchEvent[i] EXCEPT !.pc = "done"])
    /\ UNCHANGED cache

\* The browser evicts the origin's cache storage.
StorageEvicted ==
    /\ cache # {}
    /\ cache' = {}
    /\ UNCHANGED <<db, store, pass, hookVars, galleryVars, fetchEvent>>

ServiceWorkerNext ==
    \/ \E i \in FetchEvents, request \in Requests : FetchListener(i, request)
    \/ \E i \in FetchEvents, response \in Responses : NavigateFetchOk(i, response)
    \/ \E i \in FetchEvents : NavigateFetchFail(i)
    \/ \E i \in FetchEvents : NavigateMatch(i)
    \/ \E i \in FetchEvents : HomeMatch(i)
    \/ \E i \in FetchEvents : Match(i)
    \/ \E i \in FetchEvents, response \in Responses : FetchOk(i, response)
    \/ \E i \in FetchEvents : FetchFail(i)
    \/ \E i \in FetchEvents : CachePut(i)
    \/ \E i \in FetchEvents : CachePutFail(i)
    \/ StorageEvicted

\* The activated service worker alone, in a session with an empty store.
ServiceWorkerInit == Init /\ store = {}

ServiceWorkerSpec == ServiceWorkerInit /\ [][ServiceWorkerNext]_vars

\* ================================================================== claims
ToFetch(ps) == Range(imagesToCache(ps.images, ps.cachedUrls))
ToEvict(ps) == urlsToRemove(ps.images, ps.cachedUrls)
Clean(ps) == ps.fetchFailed = {} /\ ps.putFailed = {} /\ ~ps.evictAborted

\* Object URLs created by hook h and not revoked.
LiveRefs(h) ==
    {i \in 1 .. Len(objectUrls) :
        objectUrls[i].hook = h /\ objectUrls[i].revoked = 0}
TornDown(h) == ~mounted[h] /\ renders[h] > 0

\* C1: a sync pass that ran alone and in which every fetch, put and delete
\* succeeded has, once completed, left the store's key set equal to the
\* desired set.
C1_Convergence ==
    \A p \in Passes :
        (pass[p].pc = "done" /\ ~pass[p].overlapped /\ Clean(pass[p]))
            => Keys(store) = requiredUrls(pass[p].images)

\* A completed clean pass that kept a key, stored a key and evicted a key.
C1_Witness ==
    \E p \in Passes :
        /\ pass[p].pc = "done" /\ Clean(pass[p])
        /\ pass[p].stored # {} /\ pass[p].deleted # {}
        /\ pass[p].cachedUrls \cap requiredUrls(pass[p].images) # {}

\* C2: a completed pass in which some fetch failed has still attempted every
\* To-fetch image in turn, stored every To-fetch key whose own fetch and put
\* did not fail, and deleted every To-evict key (unless the delete
\* transaction itself failed).
C2_PartialFailure ==
    \A p \in Passes :
        (pass[p].pc = "done" /\ pass[p].fetchFailed # {}) =>
            /\ pass[p].fetched = imagesToCache(pass[p].images, pass[p].cachedUrls)
            /\ \A k \in ToFetch(pass[p]) \ (pass[p].fetchFailed \cup pass[p].putFailed) :
                    /\ k \in pass[p].stored
                    /\ ~pass[p].overlapped => k \in Keys(store)
            /\ ~pass[p].evictAborted =>
                    /\ pass[p].deleted = ToEvict(pass[p])
                    /\ ~pass[p].overlapped => \A k \in ToEvict(pass[p]) : k \notin Keys(store)

\* A completed pass whose first fetch failed, which then stored another key
\* and evicted a stale one.
C2_Witness ==
    \E p \in Passes :
        /\ pass[p].pc = "done"
        /\ Len(pass[p].fetched) > 1
        /\ pass[p].fetched[1] \in pass[p].fetchFailed
        /\ pass[p].stored # {} /\ pass[p].deleted # {}

\* C3: a hook instance never has more than one unrevoked object URL, and none
\* after its teardown.
C3_NoLeak ==
    \A h \in Hooks :
        /\ Cardinality(LiveRefs(h)) <= 1
        /\ TornDown(h) => LiveRefs(h) = {}

\* C4: every object URL is revoked exactly once: never twice, and once as
\* soon as it is no longer the output of its mounted hook.
C4_ReleasedOnce ==
    \A i \in 1 .. Len(objectUrls) :
        LET h == objectUrls[i].hook IN
        /\ objectUrls[i].revoked <= 1
        /\ (~mounted[h] \/ source[h] # BlobSource(i)) => objectUrls[i].revoked = 1

\* C5: the output of a mounted hook is never an object URL that has been
\* revoked.
C5_NoDangling ==
    \A h \in Hooks :
        (mounted[h] /\ source[h].kind = "blob")
            => objectUrls[source[h].v].revoked = 0

\* C6: a step in which a getImage of a superseded effect (isMounted false)
\* settles changes neither any hook's output nor any object URL.
C6_Supersession ==
    [][(\E l \in lookups : ~l.isMounted /\ l \notin lookups')
            => (source' = source /\ objectUrls' = objectUrls /\ last' = last)]_vars

\* The newer resolution has produced its output while the lookup of the
\* superseded input is still in flight.
C6_Witness ==
    \E l \in lookups :
        /\ ~l.isMounted /\ mounted[l.hook]
        /\ l.url # imageUrl[l.hook]
        /\ last[l.hook] = "hit"

\* C7: once the lookup for the current input u has completed with no entry,
\* the output is u itself.
C7_Fallback ==
    \A h \in Hooks :
        (mounted[h] /\ last[h] = "miss") => source[h] = UrlSource(imageUrl[h])

\* A miss after an input change, replacing an object URL as the output.
C7_Witness ==
    \E h \in Hooks :
        /\ mounted[h] /\ last[h] = "miss"
        /\ renders[h] > 1 /\ closure[h].source.kind = "blob"

\* The hook's output is an object URL made from the stored payload of its
\* current input.
CachedOutput(h) ==
    /\ last[h] = "hit"
    /\ source[h].kind = "blob"
    /\ objectUrls[source[h].v].key = imageUrl[h]
    /\ objectUrls[source[h].v].blob = Blob(store, imageUrl[h])

\* C8: while the store holds an entry for the hook's input, the output
\* eventually becomes an object URL of the stored payload of the input then
\* current, unless the hook unmounts, the lookup fails or the input changes
\* to a URL the store has no entry for; this holds for the first input and
\* for every later one.
C8_CachedEventually ==
    (/\ mounted[currentImageSource]
     /\ last[currentImageSource] = "pending"
     /\ imageUrl[currentImageSource] \in Keys(store))
        ~> (\/ ~mounted[currentImageSource]
            \/ imageUrl[currentImageSource] \notin Keys(store)
            \/ last[currentImageSource] = "failed"
            \/ CachedOutput(currentImageSource))

\* After an input change to a cached URL the output is that URL's payload.
C8_Witness ==
    \E h \in Hooks :
        /\ mounted[h] /\ renders[h] > 1 /\ CachedOutput(h)

\* C9: while the input is null or the current resolution is pending, the
\* output is null.
C9_NullWhilePending ==
    \A h \in Hooks :
        (mounted[h] /\ (imageUrl[h] = NoUrl \/ last[h] = "pending"))
            => source[h] = NoSource

\* C10: once the lookup for the current input u has failed, the output is u.
C10_FailureFallback ==
    \A h \in Hooks :
        (mounted[h] /\ last[h] = "failed") => source[h] = UrlSource(imageUrl[h])

\* ---------------------------------------------------------- whole system
\* The last entry a pass has put under key k, if it has put one.
LastPut(ps, k) ==
    LET is == {i \in 1 .. Len(ps.puts) : ps.puts[i].url = k}
    IN ps.puts[CHOOSE i \in is : \A j \in is : j <= i]

\* C11: a put of a key the store already holds replaces the payload: the
\* store never holds two entries with one key, and after a pass has put a
\* key several times a get of the key returns the payload of its last put.
C11_IdempotentPut ==
    /\ \A k \in Urls : Cardinality({e \in store : e.url = k}) <= 1
    /\ \A p \in Passes : \A k \in Urls :
            (~pass[p].overlapped /\ \E i \in 1 .. Len(pass[p].puts) : pass[p].puts[i].url = k)
                => Blob(store, k) = LastPut(pass[p], k).blob

\* One pass has put the same key twice, with different payloads.
C11_Witness ==
    \E p \in Passes : \E i, j \in 1 .. Len(pass[p].puts) :
        /\ i < j
        /\ pass[p].puts[i].url = pass[p].puts[j].url
        /\ pass[p].puts[i].blob # pass[p].puts[j].blob
        /\ Blob(store, pass[p].puts[j].url) = pass[p].puts[j].blob

\* C12: from an empty store, a pass over the manifest [A, B, C] that has no
\* failure leaves the keys {A, B, C}; a following pass over [A, C] that has no
\* failure leaves the keys {A, C}; after it, a hook given B resolves to B's
\* network URL and a hook given A resolves to an object URL of the payload
\* the first pass stored for A.
C12_EndToEnd ==
    /\ (pass[1].pc = "done" /\ Clean(pass[1]) /\ pass[2].pc = "idle")
            => Keys(store) = Range(ManifestABC)
    /\ (pass[1].pc = "done" /\ Clean(pass[1]) /\ pass[2].pc = "done" /\ Clean(pass[2]))
            => /\ Keys(store) = Range(ManifestAC)
               /\ pass[2].fetched = <<>>
               /\ last[currentImageSource] \in {"hit", "miss"}
                    => source[currentImageSource] = UrlSource(ManifestABC[2])
               /\ last[nextImageSource] \in {"hit", "miss"}
                    => /\ CachedOutput(nextImageSource)
                       /\ objectUrls[source[nextImageSource].v].blob
                            = LastPut(pass[1], ManifestABC[1]).blob

\* Both passes ended without a failure and both hooks have resolved.
C12_Witness ==
    /\ pass[1].pc = "done" /\ Clean(pass[1])
    /\ pass[2].pc = "done" /\ Clean(pass[2]) /\ pass[2].deleted = {ManifestABC[2]}
    /\ source[currentImageSource] = UrlSource(ManifestABC[2])
    /\ last[currentImageSource] = "miss"
    /\ source[nextImageSource].kind = "blob"

\* C13: when the store cannot be opened at the start of a pass the pass is
\* over: it lists nothing, fetches nothing, puts nothing and deletes nothing,
\* the store keeps the entries it had, and the pass ends in its own catch.
C13_OpenFailureAborts ==
    \A p \in Passes :
        pass[p].openFailed
            => /\ pass[p].pc = "aborted"
               /\ pass[p].cachedUrls = {} /\ pass[p].queue = <<>>
               /\ pass[p].fetched = <<>>
               /\ pass[p].puts = <<>> /\ pass[p].stored = {}
               /\ pass[p].deleted = {} /\ ~pass[p].evictAborted
               /\ ~pass[p].overlapped
                    => store = {Entry(u, PriorBlob(u)) : u \in Keys(store)}

\* The open failed for a pass that had both keys to fetch and keys to evict.
C13_Witness ==
    \E p \in Passes :
        /\ pass[p].openFailed /\ pass[p].pc = "aborted"
        /\ imagesToCache(pass[p].images, Keys(store)) # <<>>
        /\ urlsToRemove(pass[p].images, Keys(store)) # {}

\* indexedDB.open requests that have not settled: one per caller of openDB
\* that found db unset.
PendingOpens ==
    {<<"pass", p>> : p \in {q \in Passes : pass[q].pc = "open"}}
        \cup {<<"lookup", l>> : l \in {k \in lookups : k.phase = "open"}}

\* C14: once an open has succeeded, no step starts another open request and
\* the handle openDB returns to later callers stays the one that open stored.
C14_OpenIdempotent ==
    [][db # NoHandle =>
          /\ db' = db
          /\ \A p \in Passes : pass'[p].pc = "open" => pass[p].pc = "open"
          /\ \A l \in lookups' : l.phase = "open" =>
                \E k \in lookups : k.phase = "open" /\ k.hook = l.hook /\ k.url = l.url]_vars

\* C15: callers that invoke openDB before the first open has completed share
\* one open request: at no time are two open requests pending.
C15_OpenCoalesced == Cardinality(PendingOpens) <= 1

\* C16: a key whose fetch failed in a pass is fetched once by that pass and
\* is not stored by it, and the next pass whose manifest names the key, run
\* after that pass has ended, fetches the key again.
C16_FailedFetchNotRetried ==
    \A p \in Passes : \A k \in pass[p].fetchFailed :
        /\ Len(SelectSeq(pass[p].fetched, LAMBDA u : u = k)) = 1
        /\ k \notin pass[p].stored
        /\ \A q \in Passes :
              (/\ q = p + 1 /\ pass[q].pc = "done"
               /\ ~pass[p].overlapped /\ ~pass[q].overlapped
               /\ k \in requiredUrls(pass[q].images))
                  => k \in Range(pass[q].fetched)

\* C17: a delete that fails for one key of a pass's eviction neither prevents
\* nor undoes the deletion of the other keys the pass evicts: once the pass
\* has ended, every other such key is gone from the store.
C17_DeleteFailureIsolated ==
    \A p \in Passes :
        (pass[p].pc = "done" /\ ~pass[p].overlapped)
            => \A k \in ToEvict(pass[p]) \ pass[p].deleteFailed : k \notin Keys(store)

\* How often a pass has started a fetch of key k.
Attempts(ps, k) == Cardinality({i \in 1 .. Len(ps.fetched) : ps.fetched[i] = k})

\* C18: a key whose put failed in a pass is skipped without retry (the pass
\* fetches it once and does not store it), and the pass goes on: it attempts
\* every image of its list and then issues the eviction.
C18_PutFailureSkipped ==
    \A p \in Passes : \A k \in pass[p].putFailed :
        /\ Attempts(pass[p], k) = 1
        /\ k \notin pass[p].stored
        /\ pass[p].pc # "aborted"
        /\ pass[p].pc = "done"
              => /\ pass[p].fetched = imagesToCache(pass[p].images, pass[p].cachedUrls)
                 /\ pass[p].evictAborted \/ pass[p].deleted = ToEvict(pass[p])

\* C19: every step in which a hook's getImage resolves leaves the store as it
\* was and sets the output by the store of that moment: the network URL u
\* when the store has no entry for u (a put for u may be outstanding), an
\* object URL of the whole payload of u's entry otherwise; and no step of a
\* hook changes the store.
C19_LookupRacesPut ==
    [][/\ pass' = pass => store' = store
       /\ \A l \in lookups :
            (/\ l.isMounted /\ l.phase = "read" /\ l \notin lookups'
             /\ last[l.hook] = "pending" /\ last'[l.hook] \in {"hit", "miss"})
                => /\ store' = store
                   /\ IF l.url \in Keys(store)
                      THEN /\ source'[l.hook].kind = "blob"
                           /\ Len(objectUrls') = Len(objectUrls) + 1
                           /\ objectUrls'[source'[l.hook].v].blob \in Payloads
                           /\ Entry(l.url, objectUrls'[source'[l.hook].v].blob) \in store
                      ELSE source'[l.hook] = UrlSource(l.url)]_vars

\* The hook has resolved to the network URL while the pass's put for that
\* URL is outstanding.
C19_Witness ==
    \E p \in Passes : \E h \in Hooks :
        /\ pass[p].pc = "put" /\ Head(pass[p].queue) = imageUrl[h]
        /\ mounted[h] /\ last[h] = "miss" /\ source[h] = UrlSource(imageUrl[h])

\* C20: at most one sync pass is in flight at any time.
C20_PassesExclusive == Cardinality({p \in Passes : Active(pass[p])}) <= 1

\* C21: once an open of the store has failed, nothing later touches the
\* store: the pass that runs after the failed one never lists, puts or
\* deletes, no hook's getImage reaches its read, and every hook that has
\* settled returns its network URL.
C21_CachingDisabled ==
    pass[1].openFailed
        => /\ pass[2].pc \in {"idle", "open", "aborted"}
           /\ pass[2].puts = <<>> /\ pass[2].deleted = {}
           /\ \A l \in lookups : l.phase # "read"
           /\ \A h \in Hooks :
                (mounted[h] /\ last[h] # "pending")
                    => source[h] = UrlSource(imageUrl[h])

\* C23: a pass fetches and puts only keys of its manifest that its listing
\* did not find, deletes only listed keys that its manifest does not name,
\* and leaves the entry of every listed key of its manifest as it was.
C23_Frame ==
    \A p \in Passes :
        LET D == requiredUrls(pass[p].images)
            C == pass[p].cachedUrls
        IN /\ Range(pass[p].fetched) \subseteq D \ C
           /\ {pass[p].puts[i].url : i \in 1 .. Len(pass[p].puts)} \subseteq D \ C
           /\ pass[p].deleted \subseteq C \ D
           /\ ~pass[p].overlapped
                => \A k \in D \cap C : Entry(k, PriorBlob(k)) \in store

\* A pass has fetched, put and deleted while an entry of its manifest that
\* was already stored is still there.
C23_Witness ==
    \E p \in Passes :
        /\ pass[p].pc = "done" /\ pass[p].puts # <<>> /\ pass[p].deleted # {}
        /\ \E k \in requiredUrls(pass[p].images) \cap pass[p].cachedUrls :
                Entry(k, PriorBlob(k)) \in store

C25_InstancesIndependent ==
    /\ [](\A h \in Hooks :
            source[h].kind = "blob" => objectUrls[source[h].v].hook = h)
    /\ [][\A i \in DOMAIN objectUrls :
            objectUrls'[i].revoked > objectUrls[i].revoked
                => \A h \in Hooks :
                      source[h] = BlobSource(i)
                          => renders'[h] # renders[h] \/ mounted'[h] # mounted[h]]_vars

\* The tile returns a live object URL for a key while an object URL that
\* currentImageSource made for the same key has been revoked.
C25_Witness ==
    /\ mounted[FrozenImageTile] /\ source[FrozenImageTile].kind = "blob"
    /\ objectUrls[source[FrozenImageTile].v].revoked = 0
    /\ \E i \in DOMAIN objectUrls :
            /\ objectUrls[i].hook = currentImageSource
            /\ objectUrls[i].key = objectUrls[source[FrozenImageTile].v].key
            /\ objectUrls[i].revoked > 0

\* C26: when the second pass started while the first was running and both
\* have ended with every fetch, put and delete succeeding, the store's keys
\* are the URLs of the second pass's manifest.
C26_OverlapConverges ==
    (/\ pass[1].overlapped /\ pass[2].overlapped
     /\ pass[1].pc = "done" /\ Clean(pass[1])
     /\ pass[2].pc = "done" /\ Clean(pass[2]))
        => Keys(store) = requiredUrls(pass[2].images)

\* C27: within one pass no URL is fetched more than once.
C27_FetchedOnce ==
    \A p \in Passes : \A k \in Urls : Attempts(pass[p], k) <= 1

\* The first n elements of a sequence.
Prefix(s, n) == SubSeq(s, 1, n)

\* C28: a pass fetches the images it has to cache one after the other in
\* manifest order, each fetch starting only when the image before it has
\* been put or skipped, and it issues no delete before the last of them has
\* been put or skipped.
C28_Sequential ==
    \A p \in Passes :
        LET todo == Filter(pass[p].images, pass[p].cachedUrls)
            n == Len(pass[p].fetched)
            settled == IF pass[p].pc = "put" THEN n - 1 ELSE n
        IN /\ n <= Len(todo) /\ pass[p].fetched = Prefix(todo, n)
           /\ pass[p].pc = "fetch" => pass[p].queue = SubSeq(todo, n + 1, Len(todo))
           /\ pass[p].pc = "put" => pass[p].queue = SubSeq(todo, n, Len(todo))
           /\ Len(pass[p].puts) <= settled
           /\ (pass[p].pc \in {"evict", "done"} \/ pass[p].deleted # {} \/ pass[p].evictAborted)
                => /\ pass[p].fetched = todo
                   /\ pass[p].queue = <<>> /\ pass[p].blob = NoBlob

\* A pass is at its deletes after two images, the first of them skipped.
C28_Witness ==
    \E p \in Passes :
        /\ pass[p].pc = "evict" /\ Len(pass[p].fetched) = 2
        /\ Len(pass[p].puts) = 1 /\ pass[p].puts[1].url = pass[p].fetched[2]

\* The handler of a pass has run to its end: every image it had to cache was
\* attempted and the delete transaction, if any key was to go, was issued.
Completed(ps) ==
    /\ ps.pc = "done"
    /\ ps.fetched = imagesToCache(ps.images, ps.cachedUrls)
    /\ ToEvict(ps) # {} => (ps.deleted = ToEvict(ps) \/ ps.evictAborted)

\* C29 as stated: every started pass eventually completes, having attempted
\* every key to fetch and issued a delete for every key to evict.
C29_AlwaysCompletes ==
    \A p \in Passes : pass[p].pc # "idle" ~> Completed(pass[p])

\* C29: every started pass eventually ends: either its open or its listing
\* failed and it did nothing, or it has attempted every key to fetch and
\* issued a delete for every key to evict.
C29_Terminates ==
    \A p \in Passes :
        pass[p].pc # "idle"
            ~> \/ Completed(pass[p])
               \/ /\ pass[p].pc = "aborted"
                  /\ pass[p].fetched = <<>> /\ pass[p].puts = <<>>
                  /\ pass[p].deleted = {} /\ ~pass[p].evictAborted

\* A pass has ended after a failed fetch, a put and an aborted delete
\* transaction.
C29_Witness ==
    \E p \in Passes :
        /\ Completed(pass[p]) /\ pass[p].fetchFailed # {}
        /\ pass[p].puts # <<>> /\ pass[p].evictAborted

\* C22: no image becomes the current image a second time before every
\* image has been shown.
C22_NonRepeating == ~shown.repeated

C31_NeverStuck ==
    /\ nextImage # NoUrl
    /\ (galleryMode = "swipe" /\ ~isLocked /\ ~isAnimating)
            => ~Dropped(isAnimating, nextImage, isLocked)

\* The same for lists of at least two images only.
C31_NeverStuckFromTwo == Len(allImages) >= 2 => C31_NeverStuck

\* C32: given at least two images, every completed navigation transition
\* (the fade-out's completion, which sets the current image) makes current an
\* image other than the one shown just before it, also when the queue is
\* refilled at the end of a cycle and after an image was picked in the grid.
C32_AlwaysAdvances ==
    [][(Len(allImages) >= 2 /\ transition.phase = "fadeOut" /\ transition'.phase = "fadeIn")
            => currentImage' # currentImage]_vars

\* C33: while the view is locked the current image does not change: no step
\* taken in the locked view starts a transition, and a transition that was
\* started before the lock was set does not change the image either.
C33_LockedImageFixed ==
    [][(isLocked /\ isLocked') =>
            /\ currentImage' = currentImage
            /\ transition.phase = "none" => transition'.phase = "none"]_vars

\* While the view is locked no transition starts.
C33_NoStartWhileLocked ==
    [][isLocked => ~(transition.phase = "none" /\ transition'.phase = "fadeOut")]_vars

\* C34: in every reachable state a locked view is in swipe mode with a
\* current image: the lock is only entered in swipe mode with a current
\* image, and while it stays on the mode does not leave swipe and the
\* current image is not cleared.
C34_LockedInSwipe ==
    /\ [](isLocked => (galleryMode = "swipe" /\ currentImage # NoUrl))
    /\ [][/\ (~isLocked /\ isLocked') => (galleryMode = "swipe" /\ currentImage # NoUrl)
          /\ (isLocked /\ isLocked') => (galleryMode' = "swipe" /\ currentImage' # NoUrl)
         ]_vars

\* The view is locked on an image after at least two images were shown.
C34_Witness ==
    /\ isLocked /\ galleryMode = "swipe"
    /\ Cardinality(shown.seen) >= 2
    /\ currentImage # NoUrl

\* C35: the fetch listener puts a response into the cache only for a GET
\* request whose network response has status 200; a non-GET request is never
\* intercepted (no respondWith); and a navigation request is answered from
\* the cache only when its network fetch has failed.
C35_ServiceWorkerCaching ==
    /\ [](\A i \in FetchEvents :
            LET ev == fetchEvent[i] IN
            /\ (ev.pc # "idle" /\ ev.request.method # "GET")
                    => (~ev.intercepted /\ ev.served = "default" /\ ev.pc = "done")
            /\ (ev.request.mode = "navigate" /\ ev.served = "cache") => ev.fetchFailed)
    /\ [][\A e \in cache' \ cache :
            \E i \in FetchEvents :
                /\ fetchEvent[i].pc = "put"
                /\ fetchEvent[i].request.method = "GET"
                /\ fetchEvent[i].served = "network"
                /\ fetchEvent[i].response.status = 200
                /\ e = [url |-> fetchEvent[i].request.url,
                        response |-> fetchEvent[i].response]
         ]_vars

\* A navigation whose fetch failed was answered with a response that an
\* earlier event had put into the cache.
C35_Witness ==
    \E i \in FetchEvents :
        /\ fetchEvent[i].pc = "done"
        /\ fetchEvent[i].request.mode = "navigate"
        /\ fetchEvent[i].request.url \notin urlsToCache
        /\ fetchEvent[i].fetchFailed
        /\ fetchEvent[i].served = "cache"
        /\ fetchEvent[i].response = match(cache, fetchEvent[i].request.url)

Next == SyncNext \/ HookNext

Spec == Init /\ [][Next]_vars

====
